---- MODULE Spec2Model ----
(***************************************************************************)
(* Model of kick_presence.config.Config: a JSON-backed settings store with *)
(* dotted-key get/set, default merging on load, and explicit save.         *)
(*                                                                         *)
(* Python objects are modelled as they are: every dict is an object of a   *)
(* heap, and a dict's entry holds either a scalar or a reference to        *)
(* another dict, so that two names for one dict (aliasing) are visible.    *)
(* Strings that the code splits are sequences of tokens, "." being the     *)
(* separator token, so that str.split(".") is a computation.               *)
(* The file on disk holds JSON text, modelled by the JSON value the text   *)
(* denotes; json.dump and json.load convert between Python values and      *)
(* JSON values.                                                            *)
(***************************************************************************)
EXTENDS Integers, Sequences, FiniteSets, TLC

VARIABLES
    heap,    \* the dict objects: heap[r] is the dict with reference r
    store,   \* store[i]: reference of instance i's config_data, 0 before __init__ returns
    file,    \* what is at config_path on disk
    held,    \* a dict the caller obtained from get and still holds (0: none)
    last,    \* the last call: its arguments, its outcome, the file before it
    wasSet,  \* wasSet[i]: the keys set was called with on instance i
    nops     \* number of calls made so far

vars == <<heap, store, file, held, last, wasSet, nops>>

(* Number of calls in a run. *)
MaxOps == 4

Dot == "."

----------------------------------------------------------------------------
(* Values.  A tree is either a scalar literal or a mapping of keys to      *)
(* trees; it stands for a Python value (lit a Python scalar) or for a JSON *)
(* value (lit a JSON literal).                                             *)

Lit(text) == [obj |-> FALSE, lit |-> text, items |-> <<>>]
Obj(f) == [obj |-> TRUE, lit |-> "", items |-> f]
EmptyObj == Obj(<<>>)

(* A cell of a dict (or a variable): a scalar, or a reference to a dict.   *)
Scalar(py) == [ref |-> 0, py |-> py]
DictRef(r) == [ref |-> r, py |-> "dict"]
IsDict(c) == c.ref # 0

(* Python scalars and the JSON literals json.dump writes for them.         *)
ScalarTable ==
    { <<"None", "null">>, <<"True", "true">>, <<"False", "false">>,
      <<"30", "30">>, <<"60", "60">>,
      <<"''", "\"\"">>, <<"'u'", "\"u\"">>, <<"'m'", "\"m\"">>,
      <<"'dark'", "\"dark\"">>, <<"'INFO'", "\"INFO\"">>,
      <<"'fallback'", "\"fallback\"">>, <<"[]", "[]">> }

JsonOf(py) == (CHOOSE p \in ScalarTable : p[1] = py)[2]
PyOf(json) == (CHOOSE p \in ScalarTable : p[2] = json)[1]

RECURSIVE JsonEncode(_)
JsonEncode(v) ==
    IF v.obj THEN Obj([k \in DOMAIN v.items |-> JsonEncode(v.items[k])])
    ELSE Lit(JsonOf(v.lit))

RECURSIVE JsonDecode(_)
JsonDecode(t) ==
    IF t.obj THEN Obj([k \in DOMAIN t.items |-> JsonDecode(t.items[k])])
    ELSE Lit(PyOf(t.lit))

(* The Python value a cell denotes in heap h (dict equality is structural). *)
RECURSIVE PyVal(_, _)
PyVal(h, c) ==
    IF IsDict(c) THEN Obj([k \in DOMAIN h[c.ref] |-> PyVal(h, h[c.ref][k])])
    ELSE Lit(c.py)

(* Building the objects of a value: children first, then the dict itself.  *)
RECURSIVE Alloc(_, _)
RECURSIVE AllocItems(_, _, _, _)
AllocItems(h, items, todo, acc) ==
    IF todo = {} THEN [heap |-> h, dict |-> acc]
    ELSE LET k == CHOOSE k \in todo : TRUE
             r == Alloc(h, items[k])
         IN AllocItems(r.heap, items, todo \ {k}, acc @@ (k :> r.cell))
Alloc(h, v) ==
    IF ~v.obj THEN [heap |-> h, cell |-> Scalar(v.lit)]
    ELSE LET r == AllocItems(h, v.items, DOMAIN v.items, <<>>)
         IN [heap |-> Append(r.heap, r.dict), cell |-> DictRef(Len(r.heap) + 1)]

(* str.split("."): the segments between the separators, at least one.      *)
RECURSIVE Split(_)
Split(s) ==
    IF \A i \in 1..Len(s) : s[i] # Dot THEN <<s>>
    ELSE LET i == CHOOSE i \in 1..Len(s) :
                      s[i] = Dot /\ \A j \in 1..(i - 1) : s[j] # Dot
         IN <<SubSeq(s, 1, i - 1)>> \o Split(SubSeq(s, i + 1, Len(s)))

----------------------------------------------------------------------------
(* Config._load_config: the default schema.                                 *)

KickDefaults ==
    (<<"username">> :> Scalar("''")) @@ (<<"check_interval">> :> Scalar("30"))
    @@ (<<"enable_notifications">> :> Scalar("True"))
DiscordDefaults ==
    (<<"client_id">> :> Scalar("''")) @@ (<<"enable_rich_presence">> :> Scalar("True"))
GuiDefaults ==
    (<<"theme">> :> Scalar("'dark'")) @@ (<<"start_minimized">> :> Scalar("False"))
    @@ (<<"minimize_to_tray">> :> Scalar("True"))
LoggingDefaults ==
    (<<"level">> :> Scalar("'INFO'")) @@ (<<"file">> :> Scalar("None"))

DefaultSections == << <<"kick">>, <<"discord">>, <<"gui">>, <<"logging">> >>

(* The default schema with kick.check_interval of 60.                       *)
default_config_interval_60(h) ==
    LET n == Len(h)
        h4 == h \o <<[KickDefaults EXCEPT ![<<"check_interval">>] = Scalar("60")],
                     DiscordDefaults, GuiDefaults, LoggingDefaults>>
        root == [i \in 1..4 |-> DictRef(n + i)]
    IN [heap |-> Append(h4, [k \in {DefaultSections[i] : i \in 1..4} |->
                                 root[CHOOSE i \in 1..4 : DefaultSections[i] = k]]),
        ref |-> n + 5]

(* default_config = {...}: five new dicts; ref is the outer one.            *)
default_config(h) ==
    LET n == Len(h)
        h4 == h \o <<KickDefaults, DiscordDefaults, GuiDefaults, LoggingDefaults>>
        root == [i \in 1..4 |-> DictRef(n + i)]
    IN [heap |-> Append(h4, [k \in {DefaultSections[i] : i \in 1..4} |->
                                 root[CHOOSE i \in 1..4 : DefaultSections[i] = k]]),
        ref |-> n + 5]

----------------------------------------------------------------------------
(* Config.get                                                               *)

(* get with the default forgotten: a missing key gives None.                *)
RECURSIVE GetLoopNoDefault(_, _, _, _)
GetLoopNoDefault(h, value, keys, default) ==
    IF keys = <<>> THEN value
    ELSE IF IsDict(value) /\ Head(keys) \in DOMAIN h[value.ref]
         THEN GetLoopNoDefault(h, h[value.ref][Head(keys)], Tail(keys), default)
         ELSE Scalar("None")

RECURSIVE GetLoop(_, _, _, _)
GetLoop(h, value, keys, default) ==
    IF keys = <<>> THEN value
    ELSE IF IsDict(value) /\ Head(keys) \in DOMAIN h[value.ref]
         THEN GetLoop(h, h[value.ref][Head(keys)], Tail(keys), default)
         ELSE default

(* get returning a copy of the mapping it finds.                            *)
get_copy(h, root, key, default) ==
    LET c == GetLoop(h, DictRef(root), Split(key), default) IN
    IF IsDict(c) THEN LET a == Alloc(h, PyVal(h, c)) IN [heap |-> a.heap, ret |-> a.cell]
    ELSE [heap |-> h, ret |-> c]

(* get(key, default): the heap after the call and the value returned.      *)
get(h, root, key, default) ==
    [heap |-> h, ret |-> GetLoop(h, DictRef(root), Split(key), default)]

----------------------------------------------------------------------------
(* Config.set                                                               *)

(* d[k] = c *)
Put(d, k, c) == [x \in DOMAIN d \cup {k} |-> IF x = k THEN c ELSE d[x]]

(* The loop over keys[:-1] and the final assignment.  config is the cell   *)
(* the loop variable holds.  A config that is no dict makes the "in" test, *)
(* the item assignment or the subscript raise TypeError.                   *)
(* set creating a missing mapping without storing it in its parent.        *)
RECURSIVE SetLoopUnlinked(_, _, _, _)
SetLoopUnlinked(h, config, keys, value) ==
    IF ~IsDict(config) THEN [heap |-> h, raised |-> "TypeError"]
    ELSE IF Len(keys) = 1
         THEN [heap |-> [h EXCEPT ![config.ref] = Put(@, keys[1], value)],
               raised |-> "none"]
         ELSE LET k == Head(keys) IN
              IF k \notin DOMAIN h[config.ref]
              THEN SetLoopUnlinked(Append(h, <<>>), DictRef(Len(h) + 1), Tail(keys), value)
              ELSE SetLoopUnlinked(h, h[config.ref][k], Tail(keys), value)

RECURSIVE SetLoop(_, _, _, _)
SetLoop(h, config, keys, value) ==
    IF ~IsDict(config) THEN [heap |-> h, raised |-> "TypeError"]
    ELSE IF Len(keys) = 1
         THEN [heap |-> [h EXCEPT ![config.ref] = Put(@, keys[1], value)],
               raised |-> "none"]
         ELSE LET k == Head(keys) IN
              IF k \notin DOMAIN h[config.ref]
              THEN LET new == Len(h) + 1
                       h1 == Append([h EXCEPT ![config.ref] = Put(@, k, DictRef(new))], <<>>)
                   IN SetLoop(h1, DictRef(new), Tail(keys), value)
              ELSE SetLoop(h, h[config.ref][k], Tail(keys), value)

set(h, root, key, value) == SetLoop(h, DictRef(root), Split(key), value)

----------------------------------------------------------------------------
(* Config.save_config                                                       *)

(* What is at config_path. state: "absent", "directory" (open raises       *)
(* OSError), "undecodable" (bytes that are not UTF-8), "malformed" (text   *)
(* that is not JSON), "json" (doc is the JSON value of the text).          *)
NoFile == [state |-> "absent", doc |-> Lit("null")]
FileOf(state) == [state |-> state, doc |-> Lit("null")]
JsonFile(doc) == [state |-> "json", doc |-> doc]

(* bool(x) of a cell: None and the empty dict are false.                   *)
Truthy(h, c) == IF IsDict(c) THEN DOMAIN h[c.ref] # {} ELSE c.py \notin {"None", "False", "''"}

(* data_to_save = config_data or self.config_data *)
data_to_save(h, config_data, self_data) ==
    IF Truthy(h, config_data) THEN config_data ELSE self_data

(* json.dump(data, f): the JSON value written.                              *)
JsonDump(h, c) == JsonEncode(PyVal(h, c))

(* The file after save_config; io is what open(path, "w") does.            *)
save_config(h, self_data, config_data, f, io) ==
    IF io = "OSError" THEN f
    ELSE JsonFile(JsonDump(h, data_to_save(h, config_data, self_data)))

(* What open(path, "w") can do on f: it succeeds or raises OSError (no    *)
(* permission, no parent directory); a directory cannot be opened.         *)
OpenForWrite(f) == IF f.state = "directory" THEN {"OSError"} ELSE {"ok", "OSError"}

----------------------------------------------------------------------------
(* Config._load_config                                                      *)

(* The inner loop without its "not in" test: defaults replace the fields.  *)
MergeFieldsOverwrite(section, defaults) == defaults @@ section

(* The inner loop: every default field the section lacks is inserted.      *)
MergeFields(section, defaults) == section @@ defaults

(* The outer loop without its "not in" test: every default section         *)
(* replaces the file's.                                                     *)
RECURSIVE MergeDefaultsReplace(_, _, _, _)
MergeDefaultsReplace(h, loaded, defaults, sections) ==
    IF sections = <<>> THEN h
    ELSE MergeDefaultsReplace(
             [h EXCEPT ![loaded] = Put(@, Head(sections), h[defaults][Head(sections)])],
             loaded, defaults, Tail(sections))

(* The loop over default_config.items(), sections being the keys left.     *)
RECURSIVE MergeDefaults(_, _, _, _)
MergeDefaults(h, loaded, defaults, sections) ==
    IF sections = <<>> THEN h
    ELSE LET key == Head(sections)
             value == h[defaults][key]
             h1 == IF key \notin DOMAIN h[loaded]
                   THEN [h EXCEPT ![loaded] = Put(@, key, value)]
                   ELSE IF IsDict(value) /\ IsDict(h[loaded][key])
                        THEN [h EXCEPT ![h[loaded][key].ref] = MergeFields(@, h[value.ref])]
                        ELSE h
         IN MergeDefaults(h1, loaded, defaults, Tail(sections))

(* json.load(f): the objects of the parsed value.                           *)
JsonLoad(h, doc) == Alloc(h, JsonDecode(doc))

(* The try block: open, json.load and the merge.  The heap after it, the   *)
(* dict returned (ref 0 when an exception leaves it) and that exception.   *)
ReadAndMerge(h, f, d) ==
    CASE f.state = "directory" ->     \* open raises OSError, caught
            [heap |-> d.heap, ref |-> d.ref, raised |-> "none"]
      [] f.state = "malformed" ->     \* json.load raises JSONDecodeError, caught
            [heap |-> d.heap, ref |-> d.ref, raised |-> "none"]
      [] f.state = "undecodable" ->   \* read raises UnicodeDecodeError, not caught
            [heap |-> d.heap, ref |-> 0, raised |-> "UnicodeDecodeError"]
      [] f.state = "json" ->
            LET l == JsonLoad(d.heap, f.doc) IN
            IF ~IsDict(l.cell)        \* the merge's "in" or item assignment raises
            THEN [heap |-> l.heap, ref |-> 0, raised |-> "TypeError"]
            ELSE [heap |-> MergeDefaults(l.heap, l.cell.ref, d.ref, DefaultSections),
                  ref |-> l.cell.ref, raised |-> "none"]

(* Loading an existing file and writing what was loaded back to it.        *)
LoadExistingRewrites(h, f, d) ==
    LET r == ReadAndMerge(h, f, d) IN
    [heap |-> r.heap, ref |-> r.ref, raised |-> r.raised,
     file |-> IF r.raised = "none" /\ f.state # "directory"
              THEN JsonFile(JsonDump(r.heap, DictRef(r.ref))) ELSE f]

(* The branch for a path that exists: the file is only read.               *)
LoadExisting(h, f, d) ==
    LET r == ReadAndMerge(h, f, d) IN
    [heap |-> r.heap, ref |-> r.ref, raised |-> r.raised, file |-> f]

(* _load_config: the heap after it, the dict it returns (ref 0 when it     *)
(* raises), the exception that leaves it, and the file after it.  io is    *)
(* what the open of save_config does when the file is absent.              *)
_load_config(h, f, io) ==
    LET d == default_config(h) IN
    IF f.state # "absent" THEN LoadExisting(h, f, d)
    ELSE [heap |-> d.heap, ref |-> d.ref, raised |-> "none",
          file |-> save_config(d.heap, Scalar("unbound"), DictRef(d.ref), f, io)]

(* The opens for writing a construction over f makes: one when f is absent. *)
WriteAttempts(f) == IF f.state = "absent" THEN OpenForWrite(f) ELSE {"none"}

----------------------------------------------------------------------------
(* The calls a program makes.                                               *)

Inst == {"A", "B"}

kKick == <<"kick">>
kKickUser == <<"kick", Dot, "username">>
kKickUserX == <<"kick", Dot, "username", Dot, "x">>
kExtraA == <<"extra", Dot, "a">>
kMissing == <<"missing", Dot, "key">>
kAB == <<"a", Dot, "b">>

SetKeys == {kKick, kKickUser, kKickUserX, kExtraA}
SetValues == {Lit("'u'"), EmptyObj}
GetKeys == SetKeys \cup {kMissing, kAB}
GetDefaults == {"None", "'fallback'"}
SaveData == {Lit("None"), EmptyObj, Obj(<<"kick">> :> Lit("'u'"))}
MutKeys == {<<"username">>}
MutValues == {"'m'"}

(* Files a store may find at its path.                                      *)
InitialFiles ==
    { NoFile, FileOf("directory"), FileOf("undecodable"), FileOf("malformed"),
      JsonFile(Lit("[]")),
      JsonFile(Obj(<<"kick">> :> Lit("30"))),
      JsonFile(Obj((<<"kick">> :> Obj(<<"username">> :> Lit("\"u\"")))
                   @@ (<<"extra">> :> Obj(<<"a">> :> Obj(<<"b">> :> Lit("60"))))
                   @@ (<<"a", Dot, "b">> :> Lit("\"u\"")))) }

NoCall ==
    [op |-> "none", inst |-> "A", key |-> <<>>, val |-> Lit("None"),
     dflt |-> Scalar("None"), ret |-> Scalar("None"), raised |-> "none",
     io |-> "ok", file |-> NoFile]

Init ==
    /\ heap = <<>>
    /\ store = [i \in Inst |-> 0]
    /\ file \in InitialFiles
    /\ held = 0
    /\ last = NoCall
    /\ wasSet = [i \in Inst |-> {}]
    /\ nops = 0

(* Config(path): __init__ binds config_data unless _load_config raises.    *)
(* An instance is constructed once, and B after A.                          *)
Construct(i) ==
    /\ nops < MaxOps
    /\ store[i] = 0
    /\ i = "B" => store["A"] # 0
    /\ \E io \in WriteAttempts(file) :
         LET r == _load_config(heap, file, io) IN
         /\ heap' = r.heap
         /\ store' = [store EXCEPT ![i] = r.ref]
         /\ file' = r.file
         /\ last' = [NoCall EXCEPT !.op = "construct", !.inst = i, !.raised = r.raised,
                                   !.io = io, !.file = file]
    /\ nops' = nops + 1
    /\ UNCHANGED <<held, wasSet>>

CallGet(i) ==
    /\ nops < MaxOps
    /\ store[i] # 0
    /\ \E key \in GetKeys, d \in GetDefaults :
         LET r == get(heap, store[i], key, Scalar(d)) IN
         /\ heap' = r.heap
         /\ held' = IF IsDict(r.ret) THEN r.ret.ref ELSE held
         /\ last' = [NoCall EXCEPT !.op = "get", !.inst = i, !.key = key,
                                   !.dflt = Scalar(d), !.ret = r.ret, !.file = file]
    /\ nops' = nops + 1
    /\ UNCHANGED <<store, file, wasSet>>

CallSet(i) ==
    /\ nops < MaxOps
    /\ store[i] # 0
    /\ \E key \in SetKeys, v \in SetValues :
         LET a == Alloc(heap, v)
             r == set(a.heap, store[i], key, a.cell)
         IN /\ heap' = r.heap
            /\ last' = [NoCall EXCEPT !.op = "set", !.inst = i, !.key = key, !.val = v,
                                      !.raised = r.raised, !.file = file]
            /\ wasSet' = [wasSet EXCEPT ![i] = @ \cup {key}]
    /\ nops' = nops + 1
    /\ UNCHANGED <<store, file, held>>

CallSave(i) ==
    /\ nops < MaxOps
    /\ store[i] # 0
    /\ \E data \in SaveData, io \in OpenForWrite(file) :
         LET a == Alloc(heap, data) IN
         /\ file' = save_config(a.heap, DictRef(store[i]), a.cell, file, io)
         /\ last' = [NoCall EXCEPT !.op = "save", !.inst = i, !.val = data, !.io = io,
                                   !.file = file]
    /\ nops' = nops + 1
    /\ UNCHANGED <<heap, store, held, wasSet>>

(* The caller assigns an item of a dict it got from get.                    *)
CallerMutate ==
    /\ nops < MaxOps
    /\ held # 0
    /\ \E k \in MutKeys, v \in MutValues :
         /\ heap' = [heap EXCEPT ![held] = Put(@, k, Scalar(v))]
         /\ last' = [NoCall EXCEPT !.op = "mutate", !.key = k, !.val = Lit(v),
                                   !.file = file]
    /\ nops' = nops + 1
    /\ UNCHANGED <<store, file, held, wasSet>>

Next ==
    \/ \E i \in Inst : Construct(i)
    \/ \E i \in Inst : CallGet(i)
    \/ \E i \in Inst : CallSet(i)
    \/ \E i \in Inst : CallSave(i)
    \/ CallerMutate

Spec == Init /\ [][Next]_vars

----------------------------------------------------------------------------
(* Vocabulary of the properties.                                            *)

(* A default no stored value equals: get returning it means "not found".   *)
Absent == Scalar("<absent>")

Root(i) == DictRef(store[i])
Doc(h, i) == PyVal(h, Root(i))
Lookup(h, i, key) == get(h, store[i], key, Absent).ret
Found(h, i, key) == Lookup(h, i, key) # Absent
Value(h, i, key) == PyVal(h, Lookup(h, i, key))

(* The dotted key of a section's field.                                     *)
Field(section, field) == <<section, Dot, field>>

(* The default schema as documented: section, field, default.              *)
DocumentedDefaults ==
    { <<"kick", "username", "''">>, <<"kick", "check_interval", "30">>,
      <<"kick", "enable_notifications", "True">>,
      <<"discord", "client_id", "''">>, <<"discord", "enable_rich_presence", "True">>,
      <<"gui", "theme", "'dark'">>, <<"gui", "start_minimized", "False">>,
      <<"gui", "minimize_to_tray", "True">>,
      <<"logging", "level", "'INFO'">>, <<"logging", "file", "None">> }

SectionNames == {d[1] : d \in DocumentedDefaults}
SectionTree(s) ==
    Obj([f \in {<<d[2]>> : d \in {x \in DocumentedDefaults : x[1] = s}} |->
            Lit((CHOOSE d \in DocumentedDefaults : d[1] = s /\ <<d[2]>> = f)[3])])
DefaultTree == Obj([k \in {<<s>> : s \in SectionNames} |-> SectionTree(k[1])])

(* The JSON text of the default schema.                                     *)
DefaultJson ==
    Obj((<<"kick">> :> Obj((<<"username">> :> Lit("\"\"")) @@ (<<"check_interval">> :> Lit("30"))
                           @@ (<<"enable_notifications">> :> Lit("true"))))
        @@ (<<"discord">> :> Obj((<<"client_id">> :> Lit("\"\""))
                                 @@ (<<"enable_rich_presence">> :> Lit("true"))))
        @@ (<<"gui">> :> Obj((<<"theme">> :> Lit("\"dark\"")) @@ (<<"start_minimized">> :> Lit("false"))
                             @@ (<<"minimize_to_tray">> :> Lit("true"))))
        @@ (<<"logging">> :> Obj((<<"level">> :> Lit("\"INFO\"")) @@ (<<"file">> :> Lit("null")))))

(* A document with the defaults it lacks inserted: a missing section       *)
(* whole, a missing field of a section that is a mapping.                  *)
MergedTree(t) ==
    Obj([k \in DOMAIN t.items \cup DOMAIN DefaultTree.items |->
            IF k \notin DOMAIN t.items THEN DefaultTree.items[k]
            ELSE IF k \in DOMAIN DefaultTree.items /\ t.items[k].obj
                 THEN Obj([f \in DOMAIN t.items[k].items \cup DOMAIN DefaultTree.items[k].items |->
                              IF f \in DOMAIN t.items[k].items THEN t.items[k].items[f]
                              ELSE DefaultTree.items[k].items[f]])
                 ELSE t.items[k]])

(* The paths (sequences of keys) of a tree that lead to a scalar.          *)
RECURSIVE LeafPaths(_)
LeafPaths(t) ==
    IF ~t.obj THEN {<<>>}
    ELSE UNION {{<<k>> \o p : p \in LeafPaths(t.items[k])} : k \in DOMAIN t.items}

RECURSIVE TreeAt(_, _)
TreeAt(t, path) == IF path = <<>> THEN t ELSE TreeAt(t.items[Head(path)], Tail(path))

RECURSIVE TreeHas(_, _)
TreeHas(t, path) ==
    \/ path = <<>>
    \/ t.obj /\ Head(path) \in DOMAIN t.items /\ TreeHas(t.items[Head(path)], Tail(path))

(* The dotted key that names a path: its keys joined by ".".               *)
RECURSIVE JoinKey(_)
JoinKey(path) ==
    IF Len(path) = 1 THEN path[1] ELSE path[1] \o <<Dot>> \o JoinKey(Tail(path))

DotFree(path) == \A n \in 1..Len(path) : \A m \in 1..Len(path[n]) : path[n][m] # Dot

(* Dict r is part of the document whose outer dict is cell c.              *)
RECURSIVE Reachable(_, _, _)
Reachable(h, c, r) ==
    /\ IsDict(c)
    /\ \/ c.ref = r
       \/ \E k \in DOMAIN h[c.ref] : Reachable(h, h[c.ref][k], r)

(* Some proper prefix of the key's segments leads to a value that is no    *)
(* mapping.                                                                 *)
BlockedPrefix(h, i, segs) ==
    \E n \in 1..(Len(segs) - 1) :
        LET c == GetLoop(h, Root(i), SubSeq(segs, 1, n), Absent)
        IN c # Absent /\ ~IsDict(c)

CallMade == nops' # nops

----------------------------------------------------------------------------
(* C1 as stated: whatever the document holds, set(key, v) completes and    *)
(* get(key) then returns v.                                                 *)
C1_SetThenGetAlways ==
    last.op = "set" =>
        /\ last.raised = "none"
        /\ Value(heap, last.inst, last.key) = last.val

(* C1, amended: set(key, v) completes, creating the mappings the path      *)
(* lacks, and get(key) then returns v, unless a proper prefix of the key   *)
(* holds a value that is no mapping; then set raises TypeError and the     *)
(* document is as it was.                                                   *)
C1_SetThenGetUnlessBlocked ==
    [][(last'.op = "set" /\ CallMade) =>
          LET i == last'.inst IN
          IF BlockedPrefix(heap, i, Split(last'.key))
          THEN last'.raised = "TypeError" /\ Doc(heap', i) = Doc(heap, i)
          ELSE last'.raised = "none" /\ Value(heap', i, last'.key) = last'.val]_vars

(* set created a path that did not exist, and get finds the value there.   *)
C1_Witness ==
    /\ last.op = "set" /\ last.key = kExtraA /\ last.raised = "none"
    /\ nops = 2 /\ file = JsonFile(DefaultJson)
    /\ Value(heap, last.inst, kExtraA) = last.val

(* C2 as stated: the file holds what A saved and B was constructed from    *)
(* it; every key set on A reads the same on B as on A.                      *)
SavedByAThenLoadedByB ==
    /\ last.op = "construct" /\ last.inst = "B" /\ last.raised = "none"
    /\ store["A"] # 0
    /\ last.file = JsonFile(JsonDump(heap, Root("A")))

C2_RoundTrip ==
    SavedByAThenLoadedByB =>
        \A k \in wasSet["A"] : Value(heap, "B", k) = Value(heap, "A", k)

(* A default section that is a mapping lacking a default field: what the   *)
(* load of B fills in.                                                      *)
Backfilled(v, k) ==
    /\ Len(Split(k)) = 1 /\ k \in DOMAIN DefaultTree.items /\ v.obj
    /\ ~(DOMAIN DefaultTree.items[k].items \subseteq DOMAIN v.items)

(* C2, amended: B's document is A's saved document with the defaults it    *)
(* lacks inserted; a key set on A that A still holds reads the same on B,  *)
(* unless its value is a default section lacking default fields.           *)
C2_RoundTripUpToDefaults ==
    SavedByAThenLoadedByB =>
        /\ Doc(heap, "B") = MergedTree(Doc(heap, "A"))
        /\ \A k \in wasSet["A"] :
              (Found(heap, "A", k) /\ ~Backfilled(Value(heap, "A", k), k))
                  => Value(heap, "B", k) = Value(heap, "A", k)

(* A set a key, saved, and B loaded the file and reads the key as A does.  *)
C2_Witness ==
    /\ SavedByAThenLoadedByB
    /\ kKickUser \in wasSet["A"]
    /\ Value(heap, "A", kKickUser) = Lit("'u'")
    /\ Value(heap, "B", kKickUser) = Lit("'u'")
    /\ last.file.doc # DefaultJson

(* C3: after construction, whatever the file held, get finds a value for   *)
(* each of the ten default fields.                                          *)
C3_DefaultsComplete ==
    (last.op = "construct" /\ last.raised = "none") =>
        \A d \in DocumentedDefaults : Found(heap, last.inst, Field(d[1], d[2]))

(* The file exists and cannot be read or parsed into a settings document.  *)
Unloadable(f) ==
    \/ f.state \in {"directory", "undecodable", "malformed"}
    \/ f.state = "json" /\ ~f.doc.obj

(* C4: constructing a store over a file that cannot be read or parsed does *)
(* not raise, leaves the default schema in memory and the file as it was.  *)
C4_LoadFailureRecovery ==
    (last.op = "construct" /\ Unloadable(last.file)) =>
        /\ last.raised = "none"
        /\ Doc(heap, last.inst) = DefaultTree
        /\ Value(heap, last.inst, kKickUser) = Lit("''")
        /\ file = last.file

(* C5: a successful save_config(data) writes data whenever data is given,  *)
(* the empty document included, and the in-memory document only when no    *)
(* data is given; the file then parses back to what was to be written.     *)
C5_SaveWritesData ==
    (last.op = "save" /\ last.io = "ok") =>
        LET written == IF last.val = Lit("None") THEN Doc(heap, last.inst) ELSE last.val
        IN file.state = "json" /\ JsonDecode(file.doc) = written

(* C6 as stated: a caller's assignment to a value it got from get changes  *)
(* no store's document.                                                     *)
C6_NoAliasing ==
    [][(last'.op = "mutate" /\ CallMade) =>
          \A i \in {j \in Inst : store[j] # 0} : Doc(heap', i) = Doc(heap, i)]_vars

(* C6, amended: a scalar is returned by value, a mapping by reference: the *)
(* mapping get(key) returns is the store's own, so the caller's d[k] = v   *)
(* on it shows in the store as set(key.k, v) would for as long as that     *)
(* mapping is part of the document, and changes nothing once it is not.    *)
C6_GetReturnsStoreMapping ==
    /\ [](last.op = "get" /\ IsDict(last.ret)
            => held = last.ret.ref /\ Reachable(heap, Root(last.inst), held))
    /\ [][(last'.op = "mutate" /\ CallMade) =>
            \A i \in {j \in Inst : store[j] # 0} :
               /\ \A key \in GetKeys :
                     Lookup(heap, i, key) = DictRef(held)
                        => Value(heap', i, key \o <<Dot>> \o last'.key) = last'.val
               /\ ~Reachable(heap, Root(i), held) => Doc(heap', i) = Doc(heap, i)]_vars

(* The caller assigned to the mapping get("kick") gave it, and the store   *)
(* now reads the assigned value.                                            *)
C6_Witness ==
    /\ last.op = "mutate"
    /\ Lookup(heap, "A", kKick) = DictRef(held)
    /\ Value(heap, "A", kKickUser) = Lit("'m'")

(* C7: constructing a store at a writable path with no file leaves every   *)
(* default field readable with its documented default, and the file on     *)
(* disk holding those values.                                               *)
C7_FreshConstruction ==
    (last.op = "construct" /\ last.file.state = "absent" /\ last.io = "ok") =>
        /\ last.raised = "none"
        /\ \A d \in DocumentedDefaults :
              Lookup(heap, last.inst, Field(d[1], d[2])) = Scalar(d[3])
        /\ file = JsonFile(DefaultJson)

(* A store was constructed where no file was, the write succeeded, and    *)
(* the default is read and the file exists.                                 *)
C7_Witness ==
    /\ last.op = "construct" /\ last.file.state = "absent" /\ last.io = "ok"
    /\ store[last.inst] # 0
    /\ Lookup(heap, last.inst, Field("kick", "check_interval")) = Scalar("30")
    /\ file.state = "json"

(* What a store constructed over file f holds, as a function of f alone.   *)
LoadedFrom(f) ==
    IF f.state = "json" /\ f.doc.obj THEN MergedTree(JsonDecode(f.doc)) ELSE DefaultTree

(* C8: the file changes only in save_config and in a construction that     *)
(* finds no file; set, get and a construction over an existing file leave  *)
(* it alone, so a store constructed later holds what the file gives it and *)
(* none of another store's unsaved changes.                                 *)
C8_PersistOnlyOnSave ==
    /\ [][file' # file =>
            \/ last'.op = "save"
            \/ last'.op = "construct" /\ file.state = "absent"]_vars
    /\ [](last.op \in {"get", "set", "mutate"} => file = last.file)
    /\ []((last.op = "construct" /\ last.raised = "none")
            => Doc(heap, last.inst) = LoadedFrom(last.file))

(* A changed a value and did not save; B, constructed afterwards, reads    *)
(* the file's value.                                                        *)
C8_Witness ==
    /\ last.op = "construct" /\ last.inst = "B" /\ last.raised = "none"
    /\ last.file.state = "json" /\ file = last.file
    /\ Value(heap, "A", kKickUser) = Lit("'u'")
    /\ Value(heap, "B", kKickUser) = Lit("''")

(* The store was constructed from a file holding a JSON object.            *)
LoadedObject ==
    /\ last.op = "construct" /\ last.raised = "none"
    /\ last.file.state = "json" /\ last.file.doc.obj

(* C9 as stated: every value of the file, at any depth, is read back by    *)
(* get under its path with the value it has on disk.                        *)
C9_FileValuesRetrievable ==
    LoadedObject =>
        /\ \A p \in LeafPaths(last.file.doc) :
              Value(heap, last.inst, JoinKey(p)) = JsonDecode(TreeAt(last.file.doc, p))
        /\ <<"discord">> \notin DOMAIN last.file.doc.items =>
              /\ Lookup(heap, last.inst, Field("discord", "client_id")) = Scalar("''")
              /\ Lookup(heap, last.inst, Field("discord", "enable_rich_presence")) = Scalar("True")

(* C9, amended: the merge only inserts missing default sections and        *)
(* fields; every scalar of the file whose path has no "." inside a key is  *)
(* read back by get with its on-disk value, and a file without the discord *)
(* section yields the discord defaults.                                     *)
C9_MergePreservesFileValues ==
    LoadedObject =>
        /\ Doc(heap, last.inst) = MergedTree(JsonDecode(last.file.doc))
        /\ \A p \in LeafPaths(last.file.doc) :
              /\ TreeHas(Doc(heap, last.inst), p)
              /\ TreeAt(Doc(heap, last.inst), p) = JsonDecode(TreeAt(last.file.doc, p))
              /\ DotFree(p) =>
                    Value(heap, last.inst, JoinKey(p)) = JsonDecode(TreeAt(last.file.doc, p))
        /\ <<"discord">> \notin DOMAIN last.file.doc.items =>
              /\ Lookup(heap, last.inst, Field("discord", "client_id")) = Scalar("''")
              /\ Lookup(heap, last.inst, Field("discord", "enable_rich_presence")) = Scalar("True")

(* A file with a partial kick section, an unknown section and no discord   *)
(* section was loaded: the file's values and the discord defaults are read.*)
C9_Witness ==
    /\ LoadedObject
    /\ <<"discord">> \notin DOMAIN last.file.doc.items
    /\ Value(heap, last.inst, kKickUser) = Lit("'u'")
    /\ Value(heap, last.inst, <<"extra", Dot, "a", Dot, "b">>) = Lit("60")
    /\ Lookup(heap, last.inst, Field("discord", "enable_rich_presence")) = Scalar("True")

(* C10: get never raises and never changes the document; it returns the    *)
(* value at the full path when every segment is found in a mapping, and    *)
(* the default it was given (None when none was given) otherwise.          *)
C10_GetTotal ==
    /\ [](last.op = "get" =>
            LET t == Doc(heap, last.inst)
                path == Split(last.key)
            IN /\ last.raised = "none"
               /\ IF TreeHas(t, path) THEN PyVal(heap, last.ret) = TreeAt(t, path)
                  ELSE last.ret = last.dflt)
    /\ [][(last'.op = "get" /\ CallMade) =>
            heap' = heap /\ store' = store /\ file' = file]_vars

(* get("missing.key", "fallback") returned "fallback".                      *)
C10_Witness ==
    /\ last.op = "get" /\ last.key = kMissing
    /\ last.dflt = Scalar("'fallback'")
    /\ last.ret = Scalar("'fallback'")

====
